---- MODULE Spec2Model ----
(***************************************************************************)
(* Model of the Tesla navigation app: streamlit_app.py (the OAuth flow,    *)
(* the persisted token map, the navigation request) and tesla_client.py    *)
(* (TeslaAPIClient: vehicle list, wake-and-poll, navigation command).      *)
(*                                                                         *)
(* Python dicts are functions whose domain is the set of keys; every key   *)
(* and every leaf value is a string.  None is the reserved string None,    *)
(* which no input domain contains.                                         *)
(***************************************************************************)
EXTENDS Integers, Sequences, FiniteSets, TLC

\* ------------------------------------------------------------------ bounds

\* Number of values secrets.token_urlsafe(16) hands out in one behaviour:
\* every call returns a value never returned before.
MaxStates == 2

\* ------------------------------------------------------- program constants

\* tesla_client.py: max_attempts = 10
max_attempts == 10

None == "<None>"

PENDING == "pending_auth"

\* The username of every interactive session.  streamlit_app.py:179-183:
\* on the first run of a session 'username' is not in st.session_state, so
\* st.session_state.username is assigned what st.text_input returns on that
\* run, the widget's default "".  From then on the key exists and the block
\* is never entered again.
text_input_default == ""

\* Usernames a request to the query-parameter API can carry (any string).
ApiUsers == {"", "alice", PENDING}

Destinations == {"Main St"}

\* Browser sessions: Streamlit gives each page load its own st.session_state.
Sessions == {"tab1", "tab2"}

\* A request to the query-parameter API is a page load of its own: the script
\* stops at line 62, before any session state is used.
Runners == Sessions \cup {"api"}

\* Longest vehicle list the provider returns.
MaxVehicles == 2

VehicleIds == {"v1", "v2"}

Timestamps == {"t1"}

StateNames == <<"s1", "s2", "s3", "s4", "s5">>

\* The i-th value returned by secrets.token_urlsafe(16).
token_urlsafe(i) == StateNames[i]

\* ------------------------------------------------------------- Python dict

EmptyDict == [k \in {} |-> None]

Has(d, k) == k \in DOMAIN d

\* d.get(k, default)
Get(d, k, default) == IF k \in DOMAIN d THEN d[k] ELSE default

\* d[k] = v
Put(d, k, v) == [x \in (DOMAIN d) \cup {k} |-> IF x = k THEN v ELSE d[x]]

\* del d[k]
Del(d, k) == [x \in (DOMAIN d) \ {k} |-> d[x]]


\* ------------------------------------------------------------------- JSON
\* A JSON value a provider response is decoded to, tagged with its type (each
\* type keeps its payload under a field of its own).

JNull == [t |-> "null"]

JBool(b) == [t |-> "bool", b |-> b]

JInt(i) == [t |-> "int", i |-> i]

JStr(s) == [t |-> "str", s |-> s]

JObj(d) == [t |-> "object", v |-> d]

JList(l) == [t |-> "list", l |-> l]

\* Python's x == True: a bool compares by value, and an int equals True
\* exactly when it is 1 (bool is a subclass of int).
PyEqTrue(x) ==
    \/ x.t = "bool" /\ x.b = TRUE
    \/ x.t = "int" /\ x.i = 1

\* x.get(k, default) on a decoded value: only a dict has .get.
HasGet(x) == x.t = "object"

AttributeErrorGet(x) ==
    IF x.t = "null" THEN "'NoneType' object has no attribute 'get'"
    ELSE IF x.t = "list" THEN "'list' object has no attribute 'get'"
    ELSE "object has no attribute 'get'"

\* ------------------------------------------------------ provider responses
\* What a call to the provider can come back with.  raises names the
\* exception requests raises ("" when the call returns); json is the body
\* response.json() decodes.  A provider error answer carries an error body.

Returned(status, body) == [raises |-> "", status_code |-> status, json |-> body]

Raised(e) == [raises |-> e, status_code |-> 0, json |-> JNull]

\* POST /oauth2/v3/token
TokenResponses ==
    { Returned(200, [access_token |-> "at1", refresh_token |-> "rt1"]),
      Returned(200, [access_token |-> "at1"]),
      Returned(200, [refresh_token |-> "rt1"]),
      Returned(400, [error |-> "invalid_grant"]),
      Raised("ConnectionError") }

VehicleLists == UNION { [1..n -> [id : VehicleIds]] : n \in 0..MaxVehicles }

\* GET /vehicles: {count, response: [{id, ...}, ...]}, count being the length
\* of the list; or an error body; or no answer.
VehicleResponses ==
    { Returned(200, [count |-> Len(l), response |-> l]) : l \in VehicleLists }
        \cup { Returned(401, [error |-> "invalid bearer token"]),
               Raised("ConnectionError") }

\* POST /vehicles/{id}/wake_up: the answer is not looked at.
WakeUpResponses == { Returned(200, JNull), Raised("ConnectionError") }

\* GET /vehicles/{id}/vehicle_data.  The provider sends response: null with
\* an error status only, never with 200.
VehicleDataResponses ==
    { Returned(200, JObj([response |-> JObj([state |-> JStr("online")])])),
      Returned(200, JObj([response |-> JObj([state |-> JStr("asleep")])])),
      Returned(200, JObj([response |-> JObj([id |-> JStr("v1")])])),
      Returned(200, JObj([error |-> JStr("vehicle unavailable")])),
      Returned(408, JObj([response |-> JNull,
                          error |-> JStr("vehicle unavailable")])),
      Raised("ConnectionError") }

\* POST /vehicles/{id}/command/navigation_request
NavigationResponses ==
    { Returned(200, JObj([response |-> JObj([result |-> JBool(TRUE)])])),
      Returned(200, JObj([response |-> JObj([result |-> JBool(FALSE)])])),
      Returned(200, JObj([response |-> JObj([result |-> JInt(1)])])),
      Returned(200, JObj([response |-> JObj([result |-> JStr("true")])])),
      Returned(200, JObj([response |-> JObj([reason |-> JStr("x")])])),
      Returned(200, JObj([error |-> JStr("not_found")])),
      Returned(408, JObj([response |-> JNull,
                          error |-> JStr("vehicle unavailable")])),
      Raised("ConnectionError") }

\* ------------------------------------------------------------ TeslaAPIClient

\* A value a method returns, or the message of the exception it raises.
Ok(v) == [raised |-> "", value |-> v]

Raise(msg) == [raised |-> msg, value |-> None]

KeyError(k) ==
    IF k = "access_token" THEN "'access_token'"
    ELSE IF k = "refresh_token" THEN "'refresh_token'"
    ELSE IF k = "vehicle_id" THEN "'vehicle_id'"
    ELSE IF k = "count" THEN "'count'"
    ELSE "KeyError"

\* get_vehicles: response.json()
get_vehicles(vehicles_response) ==
    IF vehicles_response.raises # "" THEN Raise(vehicles_response.raises)
    ELSE Ok(vehicles_response.json)

\* A variant of get_first_vehicle: the last entry of the list is taken.
get_last_vehicle(vehicles_response) ==
    LET got == get_vehicles(vehicles_response)
        vehicles == got.value
    IN  IF got.raised # "" THEN got
        ELSE IF ~Has(vehicles, "count") THEN Raise(KeyError("count"))
        ELSE IF vehicles["count"] > 0
             THEN IF Len(vehicles["response"]) = 0
                  THEN Raise("list index out of range")
                  ELSE Ok(vehicles["response"][Len(vehicles["response"])]["id"])
        ELSE Raise("No vehicles found")

\* get_first_vehicle
get_first_vehicle(vehicles_response) ==
    LET got == get_vehicles(vehicles_response)
        vehicles == got.value
    IN  IF got.raised # "" THEN got
        ELSE IF ~Has(vehicles, "count") THEN Raise(KeyError("count"))
        ELSE IF vehicles["count"] > 0
             THEN IF Len(vehicles["response"]) = 0
                  THEN Raise("list index out of range")
                  ELSE Ok(vehicles["response"][1]["id"])
        ELSE Raise("No vehicles found")

\* ---------------------------------------------------------- streamlit_app.py

\* expected_state = user_tokens.get('pending_auth', {}).get(username)
expected_state(user_tokens, username) ==
    Get(Get(user_tokens, PENDING, EmptyDict), username, None)

\* if code and state: a missing parameter is None, and None and "" are falsy.
code_and_state(code, state) == code # "" /\ state # ""

\* A variant of state_differs: the comparison is made only when a state is
\* stored for the user.
state_differs_when_stored(state, expected) ==
    expected # None /\ state # expected

\* if state != expected_state
state_differs(state, expected) == state # expected

\* A variant of exchange_code: a missing refresh_token is read as "".
exchange_code_lenient(token_response) ==
    IF token_response.raises # "" THEN Raise(token_response.raises)
    ELSE LET tokens == token_response.json
         IN  IF ~Has(tokens, "access_token") THEN Raise(KeyError("access_token"))
             ELSE IF ~Has(tokens, "refresh_token")
                  THEN Ok(Put(tokens, "refresh_token", ""))
             ELSE Ok(tokens)

\* The token exchange: requests.post, response.json(), and the two lookups
\* of client.set_tokens(tokens['access_token'], tokens['refresh_token']).
exchange_code(token_response) ==
    IF token_response.raises # "" THEN Raise(token_response.raises)
    ELSE LET tokens == token_response.json
         IN  IF ~Has(tokens, "access_token") THEN Raise(KeyError("access_token"))
             ELSE IF ~Has(tokens, "refresh_token")
                  THEN Raise(KeyError("refresh_token"))
             ELSE Ok(tokens)

\* user_data of handle_tesla_callback
user_data(tokens, vehicle_id, now) ==
    [access_token |-> tokens["access_token"],
     refresh_token |-> tokens["refresh_token"],
     vehicle_id |-> vehicle_id,
     timestamp |-> now]

\* Clean up the pending auth state.
clean_up_pending(user_tokens, username) ==
    IF Has(user_tokens, PENDING) /\ Has(user_tokens[PENDING], username)
    THEN Put(user_tokens, PENDING, Del(user_tokens[PENDING], username))
    ELSE user_tokens

\* What one call of handle_tesla_callback does: ret is what it returns,
\* error what it passes to st.error, user_tokens the session's map when it
\* returns, saved whether save_tokens ran, and the provider calls it made.
CallbackOutcome(ret, error, user_tokens, saved, token_post, vehicles_get) ==
    [ret |-> ret, error |-> error, user_tokens |-> user_tokens, saved |-> saved,
     token_post |-> token_post, vehicles_get |-> vehicles_get]

handle_tesla_callback(user_tokens, username, code, state, token_response, vehicles_response, now) ==
    LET expected == expected_state(user_tokens, username)
        exchanged == exchange_code(token_response)
        vehicle == get_first_vehicle(vehicles_response)
    IN  IF ~code_and_state(code, state)
        THEN CallbackOutcome(FALSE, <<"Missing code or state in callback">>,
                             user_tokens, FALSE, 0, 0)
        ELSE IF state_differs(state, expected)
        THEN CallbackOutcome(FALSE, <<"Invalid state parameter", state, expected>>,
                             user_tokens, FALSE, 0, 0)
        ELSE IF exchanged.raised # ""
        THEN CallbackOutcome(FALSE, <<"Authentication failed", exchanged.raised>>,
                             user_tokens, FALSE, 1, 0)
        ELSE IF vehicle.raised # ""
        THEN CallbackOutcome(FALSE, <<"Authentication failed", vehicle.raised>>,
                             user_tokens, FALSE, 1, 1)
        ELSE CallbackOutcome(
                 TRUE, <<>>,
                 clean_up_pending(
                     Put(user_tokens, username,
                         user_data(exchanged.value, vehicle.value, now)),
                     username),
                 TRUE, 1, 1)

\* A variant of store_pending_state: a state already stored for the user is
\* kept (setdefault).
store_pending_state_keep_first(user_tokens, username, state) ==
    LET table == IF Has(user_tokens, PENDING) THEN user_tokens[PENDING]
                 ELSE EmptyDict
    IN  IF Has(table, username) THEN user_tokens
        ELSE Put(user_tokens, PENDING, Put(table, username, state))

\* start_tesla_auth, lines 70-77: the map after the new state is stored.
store_pending_state(user_tokens, username, state) ==
    LET table == IF Has(user_tokens, PENDING) THEN user_tokens[PENDING]
                 ELSE EmptyDict
    IN  Put(user_tokens, PENDING, Put(table, username, state))

\* A variant of disconnect_account: the record is deleted from the session's
\* map and the map is not saved.
disconnect_account_unsaved(user_tokens, username) ==
    IF Has(user_tokens, username)
    THEN [user_tokens |-> Del(user_tokens, username), saved |-> FALSE]
    ELSE [user_tokens |-> user_tokens, saved |-> FALSE]

\* The "Disconnect Account" branch of main, lines 214-216: the map after it,
\* and whether save_tokens ran.
disconnect_account(user_tokens, username) ==
    IF Has(user_tokens, username)
    THEN [user_tokens |-> Del(user_tokens, username), saved |-> TRUE]
    ELSE [user_tokens |-> user_tokens, saved |-> FALSE]

\* main, lines 195-204: the stored record authenticates a session that is
\* not yet authenticated.  crashed: a lookup in user_data raised (nothing
\* catches it, the run ends there).
existing_tokens(user_tokens, username, authenticated) ==
    IF Has(user_tokens, username) /\ ~authenticated
    THEN LET data == user_tokens[username]
         IN  IF \A k \in {"access_token", "refresh_token", "vehicle_id"} :
                    Has(data, k)
             THEN [crashed |-> FALSE, authenticated |-> TRUE]
             ELSE [crashed |-> TRUE, authenticated |-> authenticated]
    ELSE [crashed |-> FALSE, authenticated |-> authenticated]

\* ------------------------------------------------- handle_navigation_request

\* What handle_navigation_request returns: {"status": "success", "message":
\* f"... {destination}"} or {"error": message}; raw is the provider response
\* the message is formatted from, NoRaw when it has none.
NoRaw == [t |-> "none"]

Success(destination) ==
    [kind |-> "success",
     message |-> "Navigation request sent successfully to",
     destination |-> destination, raw |-> NoRaw]

Error(message, raw) ==
    [kind |-> "error", message |-> message, destination |-> None, raw |-> raw]

NotAuthenticated == Error("User not authenticated", NoRaw)

WakeTimeout == Error("Failed to wake vehicle after maximum attempts", NoRaw)

NavigationFailed(response) == Error("Navigation request failed", response)

\* if username not in st.session_state.user_tokens
not_authenticated(user_tokens, username) == ~Has(user_tokens, username)

\* Lines 33-39: the client built from the stored record.
make_client(user_tokens, username) ==
    LET data == user_tokens[username]
    IN  IF ~Has(data, "access_token") THEN Raise(KeyError("access_token"))
        ELSE IF ~Has(data, "refresh_token") THEN Raise(KeyError("refresh_token"))
        ELSE IF ~Has(data, "vehicle_id") THEN Raise(KeyError("vehicle_id"))
        ELSE Ok([access_token |-> data["access_token"],
                 refresh_token |-> data["refresh_token"],
                 vehicle_id |-> data["vehicle_id"]])

\* A variant of is_online: any 200 answer counts as online.
is_online_by_status(response) == Ok(response.status_code = 200)

\* wake_vehicle, lines 62-64: the test that ends the loop with return True.
\* raises: data['response'] is not a dict.
is_online(response) ==
    IF response.status_code = 200
    THEN LET data == response.json
         IN  IF Has(data.v, "response")
             THEN IF ~HasGet(data.v["response"])
                  THEN Raise(AttributeErrorGet(data.v["response"]))
                  ELSE Ok(Get(data.v["response"].v, "state", JNull)
                              = JStr("online"))
             ELSE Ok(FALSE)
    ELSE Ok(FALSE)

\* A variant of may_poll: the bound is inclusive.
may_poll_inclusive(attempts) == attempts <= max_attempts

\* while attempts < max_attempts
may_poll(attempts) == attempts < max_attempts

\* A variant of poll_once: the counter wraps around at max_attempts
\* (attempts = (attempts + 1) % max_attempts), so the loop is never left by
\* the timeout.
poll_once_wrapping(attempts, response) ==
    IF response.raises # ""
    THEN [next |-> "raise", attempts |-> attempts, error |-> Error(response.raises, NoRaw)]
    ELSE LET online == is_online(response)
         IN  IF online.raised # ""
             THEN [next |-> "raise", attempts |-> attempts,
                   error |-> Error(online.raised, NoRaw)]
             ELSE IF online.value
             THEN [next |-> "return", attempts |-> attempts, error |-> NoRaw]
             ELSE [next |-> "sleep", attempts |-> (attempts + 1) % max_attempts,
                   error |-> NoRaw]

\* One turn of the loop of wake_vehicle on the answer to its GET: what the
\* loop does next and the new value of attempts.  "return": return True;
\* "sleep": time.sleep(5) and another turn; "raise": leave with error.
poll_once(attempts, response) ==
    IF response.raises # ""
    THEN [next |-> "raise", attempts |-> attempts, error |-> Error(response.raises, NoRaw)]
    ELSE LET online == is_online(response)
         IN  IF online.raised # ""
             THEN [next |-> "raise", attempts |-> attempts,
                   error |-> Error(online.raised, NoRaw)]
             ELSE IF online.value
             THEN [next |-> "return", attempts |-> attempts, error |-> NoRaw]
             ELSE IF may_poll(attempts + 1)
             THEN [next |-> "sleep", attempts |-> attempts + 1, error |-> NoRaw]
             ELSE [next |-> "raise", attempts |-> attempts + 1,
                   error |-> WakeTimeout]

\* if response.get('response', {}).get('result') == True
result_is_true(response) ==
    IF ~HasGet(response) THEN Raise(AttributeErrorGet(response))
    ELSE LET inner == Get(response.v, "response", JObj(EmptyDict))
         IN  IF ~HasGet(inner) THEN Raise(AttributeErrorGet(inner))
             ELSE Ok(PyEqTrue(Get(inner.v, "result", JNull)))

\* A variant of navigation_result: lines 45-50 outside the try block, so that
\* what navigate_to_address raises leaves handle_navigation_request.
navigation_result_uncaught(destination, navigation_response) ==
    IF navigation_response.raises # ""
    THEN [kind |-> "exception", message |-> navigation_response.raises,
          destination |-> None, raw |-> NoRaw]
    ELSE LET response == navigation_response.json
             ok == result_is_true(response)
         IN  IF ok.raised # "" THEN Error(ok.raised, NoRaw)
             ELSE IF ok.value THEN Success(destination)
             ELSE NavigationFailed(response)

\* Lines 45-53 on the answer to the navigation_request POST.
navigation_result(destination, navigation_response) ==
    IF navigation_response.raises # ""
    THEN Error(navigation_response.raises, NoRaw)
    ELSE LET response == navigation_response.json
             ok == result_is_true(response)
         IN  IF ok.raised # "" THEN Error(ok.raised, NoRaw)
             ELSE IF ok.value THEN Success(destination)
             ELSE NavigationFailed(response)

\* ------------------------------------------------------------------ state

VARIABLES
    file,            \* TOKENS_FILE: whether it exists, and the pickled map
    authenticated,   \* per session: st.session_state.authenticated
    query_params,    \* per session: code and state of the page's URL
    pc,              \* per runner: where its script run stands
    user_tokens,     \* per runner: st.session_state.user_tokens of its run
    nav,             \* per runner: the handle_navigation_request in progress
    issued,          \* how many values secrets.token_urlsafe has returned
    last,            \* the handler call that returned last, and what it did
    succeeded,       \* history: usernames a handle_tesla_callback returned True for
    started,         \* history: username -> state of its latest start_tesla_auth
    revoked,         \* history: usernames disconnected since their last
                     \* handle_tesla_callback that returned True
    pending_starts   \* history: username -> the states its start_tesla_auth
                     \* calls stored since its last handle_tesla_callback

vars == <<file, authenticated, query_params, pc, user_tokens,
          nav, issued, last, succeeded, started, revoked, pending_starts>>

NoQuery == [code |-> None, state |-> None]

NoNav == [username |-> None]

NoCall == [op |-> "none"]

\* States a callback URL can carry: one handed out so far (the provider
\* echoes it), a made-up one, or none.
ReceivedStates == { token_urlsafe(i) : i \in 1..issued } \cup {"forged", ""}

Init ==
    /\ file = [exists |-> FALSE, data |-> EmptyDict]
    /\ authenticated = [s \in Sessions |-> FALSE]
    /\ query_params = [s \in Sessions |-> NoQuery]
    /\ pc = [r \in Runners |-> "idle"]
    /\ user_tokens = [r \in Runners |-> EmptyDict]
    /\ nav = [r \in Runners |-> NoNav]
    /\ issued = 0
    /\ last = NoCall
    /\ succeeded = {}
    /\ started = EmptyDict
    /\ revoked = {}
    /\ pending_starts = EmptyDict

\* Script runs do not overlap: a run starts when no other is in progress.
NoRun == \A r \in Runners : pc[r] = "idle"

\* Lines 16-17 and 23-25: the map a run starts with.  A session that never
\* saved still holds {} when the file does not exist.
load_tokens(r) == IF file.exists THEN file.data ELSE user_tokens[r]

\* save_tokens
save_tokens(map) == [exists |-> TRUE, data |-> map]

\* A variant of navigation_store: the request saves the map of its run.
navigation_store_saving(f, map) == save_tokens(map)

\* The file after a step of handle_navigation_request made on the map of its
\* run: lines 27-53 read the map and never call save_tokens, and set_tokens
\* assigns to the client only.
navigation_store(f, map) == f

\* st.session_state.username of a session.
username == text_input_default

\* The URLs a page is loaded with: no parameters, or a callback URL with
\* a code and a state, either of which may be empty.
QueryParams ==
    {NoQuery}
        \cup { [code |-> "c1", state |-> state] : state \in ReceivedStates }
        \cup { [code |-> "", state |-> "forged"] }

\* A page load and the first run of its script: fresh session state (lines
\* 12-17), the URL's parameters, and main up to line 183, which stores the
\* text input's value under 'username' and returns.
NewSession(s) ==
    /\ NoRun
    /\ \E query \in QueryParams : query_params' = [query_params EXCEPT ![s] = query]
    /\ authenticated' = [authenticated EXCEPT ![s] = FALSE]
    /\ last' = NoCall
    /\ UNCHANGED <<file, pc, user_tokens, nav, issued, succeeded, started, revoked, pending_starts>>

\* main, lines 189-192: a run of a session whose URL has a code calls
\* handle_tesla_callback.  True: st.rerun() ends the run.  False: the run
\* goes on at line 194.
Callback(s) ==
    /\ NoRun
    /\ query_params[s].code # None
    /\ \E token_response \in TokenResponses,
          vehicles_response \in VehicleResponses, now \in Timestamps :
          LET out == handle_tesla_callback(
                         load_tokens(s), username, query_params[s].code,
                         query_params[s].state, token_response,
                         vehicles_response, now)
          IN  /\ file' = IF out.saved THEN save_tokens(out.user_tokens) ELSE file
              /\ authenticated' =
                     [authenticated EXCEPT ![s] = IF out.ret THEN TRUE ELSE @]
              /\ pc' = [pc EXCEPT ![s] = IF out.ret THEN "done" ELSE "main"]
              /\ user_tokens' = [user_tokens EXCEPT ![s] =
                     IF out.ret THEN EmptyDict ELSE out.user_tokens]
              /\ succeeded' = IF out.ret THEN succeeded \cup {username}
                              ELSE succeeded
              /\ revoked' = IF out.ret THEN revoked \ {username} ELSE revoked
              /\ last' = [op |-> "handle_tesla_callback", username |-> username,
                          expected |-> expected_state(load_tokens(s), username),
                          started_before |-> Get(pending_starts, username, <<>>),
                          code |-> query_params[s].code,
                          state |-> query_params[s].state,
                          ret |-> out.ret, error |-> out.error,
                          saved |-> out.saved,
                          token_post |-> out.token_post,
                          vehicles_get |-> out.vehicles_get,
                          token_response |->
                              IF out.token_post = 1 THEN token_response
                              ELSE Raised("not called"),
                          vehicles_response |->
                              IF out.vehicles_get = 1 THEN vehicles_response
                              ELSE Raised("not called")]
    /\ pending_starts' = Del(pending_starts, username)
    /\ UNCHANGED <<query_params, nav, issued, started>>

\* A run is at line 194: after a callback that returned False, or from the
\* top when the URL has no code.
AtMain(s) ==
    \/ pc[s] = "main"
    \/ NoRun /\ query_params[s].code = None

main_tokens(s) == IF pc[s] = "main" THEN user_tokens[s] ELSE load_tokens(s)

\* A handler has returned to the script, which has nothing left to do but
\* show the result; the map of the run is read again from the file by the
\* next run.
Return(r) ==
    /\ pc' = [pc EXCEPT ![r] = "done"]
    /\ user_tokens' = [user_tokens EXCEPT ![r] = EmptyDict]
    /\ nav' = [nav EXCEPT ![r] = NoNav]

\* The run ends (st.stop(), st.rerun(), or the end of main).
EndRun(r) ==
    /\ pc[r] = "done"
    /\ pc' = [pc EXCEPT ![r] = "idle"]
    /\ last' = NoCall
    /\ UNCHANGED <<file, authenticated, query_params, user_tokens, nav, issued,
                   succeeded, started, revoked, pending_starts>>

\* main with no button pressed, lines 195-204 and the page below: some
\* record of the user authenticates the session, or the run crashes on it.
Render(s) ==
    /\ AtMain(s)
    /\ LET e == existing_tokens(main_tokens(s), username, authenticated[s])
       IN  /\ e.crashed \/ e.authenticated
           /\ authenticated' = [authenticated EXCEPT ![s] = e.authenticated]
    /\ pc' = [pc EXCEPT ![s] = "idle"]
    /\ user_tokens' = [user_tokens EXCEPT ![s] = EmptyDict]
    /\ nav' = [nav EXCEPT ![s] = NoNav]
    /\ last' = NoCall
    /\ UNCHANGED <<file, query_params, issued, succeeded, started, revoked, pending_starts>>

\* main, lines 206-209: start_tesla_auth for a session that is not
\* authenticated.
StartTeslaAuth(s) ==
    /\ AtMain(s)
    /\ LET e == existing_tokens(main_tokens(s), username, authenticated[s])
       IN  ~e.crashed /\ ~e.authenticated
    /\ issued < MaxStates
    /\ LET state == token_urlsafe(issued + 1)
       IN  /\ file' = save_tokens(
                          store_pending_state(main_tokens(s), username, state))
           /\ started' = Put(started, username, state)
           /\ pending_starts' =
                  Put(pending_starts, username,
                      Append(Get(pending_starts, username, <<>>), state))
           /\ last' = [op |-> "start_tesla_auth", username |-> username,
                       state |-> state]
    /\ issued' = issued + 1
    /\ Return(s)
    /\ UNCHANGED <<authenticated, query_params, succeeded, revoked>>

\* main, lines 213-220: the "Disconnect Account" button, shown to an
\* authenticated session.
Disconnect(s) ==
    /\ AtMain(s)
    /\ authenticated[s]
    /\ LET d == disconnect_account(main_tokens(s), username)
       IN  /\ file' = IF d.saved THEN save_tokens(d.user_tokens) ELSE file
           /\ last' = [op |-> "disconnect", username |-> username,
                       saved |-> d.saved]
    /\ authenticated' = [authenticated EXCEPT ![s] = FALSE]
    /\ revoked' = revoked \cup {username}
    /\ Return(s)
    /\ UNCHANGED <<query_params, issued, succeeded, started, pending_starts>>

\* What a finished handle_navigation_request leaves in last: its arguments,
\* what it returned, and its provider calls.
NavCall(n, result) ==
    [op |-> "handle_navigation_request", username |-> n.username,
     destination |-> n.destination, result |-> result,
     wake_up |-> n.wake_up, vehicle_data |-> n.vehicle_data,
     navigation_request |-> n.navigation_request,
     first_online |-> n.first_online, not_online |-> n.not_online,
     navigation_response |-> n.navigation_response]

\* handle_navigation_request up to the wake_up POST of wake_vehicle
\* (streamlit_app.py 29-42, tesla_client.py 46-53), for runner r on map.
BeginNavigation(r, map, name, destination) ==
    LET n0 == [username |-> name, destination |-> destination,
               client |-> None, attempts |-> 0, wake_up |-> 0,
               vehicle_data |-> 0, navigation_request |-> 0,
               first_online |-> 0, not_online |-> 0,
               navigation_response |-> Raised("not called")]
        client == make_client(map, name)
    IN  IF not_authenticated(map, name)
        THEN /\ last' = NavCall(n0, NotAuthenticated)
             /\ Return(r)
        ELSE IF client.raised # ""
        THEN /\ last' = NavCall(n0, Error(client.raised, NoRaw))
             /\ Return(r)
        ELSE \E wake_up_response \in WakeUpResponses :
               LET n1 == [n0 EXCEPT !.client = client.value, !.wake_up = 1]
               IN  IF wake_up_response.raises # ""
                   THEN /\ last' = NavCall(n1, Error(wake_up_response.raises, NoRaw))
                        /\ Return(r)
                   ELSE /\ last' = NoCall
                        /\ pc' = [pc EXCEPT ![r] = "poll"]
                        /\ user_tokens' = [user_tokens EXCEPT ![r] = map]
                        /\ nav' = [nav EXCEPT ![r] = n1]

\* Lines 56-62: a request with api, username and destination in the URL.
ApiRequest ==
    /\ NoRun
    /\ \E name \in ApiUsers, destination \in Destinations :
          BeginNavigation("api", load_tokens("api"), name, destination)
    /\ file' = navigation_store(file, load_tokens("api"))
    /\ UNCHANGED <<authenticated, query_params, issued,
                   succeeded, started, revoked, pending_starts>>

\* main, lines 225-231: the "Send to Tesla" button, shown to an
\* authenticated session, with a destination entered.
SendToTesla(s) ==
    /\ AtMain(s)
    /\ authenticated[s]
    /\ \E destination \in Destinations :
          BeginNavigation(s, main_tokens(s), username, destination)
    /\ file' = navigation_store(file, main_tokens(s))
    /\ UNCHANGED <<authenticated, query_params, issued,
                   succeeded, started, revoked, pending_starts>>

\* Whether the answer to a status poll reports the vehicle online.
ReportsOnline(response) ==
    /\ response.raises = ""
    /\ response.status_code = 200
    /\ Has(response.json.v, "response")
    /\ response.json.v["response"].t = "object"
    /\ Has(response.json.v["response"].v, "state")
    /\ response.json.v["response"].v["state"] = JStr("online")

\* The calls of one wake_vehicle are counted up to one past max_attempts.
count_call(n) == IF n > max_attempts THEN n ELSE n + 1

\* A variant of loop_turn: the wake_up POST is inside the loop.
loop_turn_waking(n, step, response) ==
    [n EXCEPT
        !.attempts = step.attempts,
        !.wake_up = count_call(@),
        !.vehicle_data = count_call(@),
        !.first_online =
            IF @ = 0 /\ ReportsOnline(response)
            THEN count_call(n.vehicle_data) ELSE @,
        !.not_online =
            IF response.raises = "" /\ ~ReportsOnline(response)
            THEN count_call(@) ELSE @]

\* wake_vehicle, lines 55-71: the calls one turn of the loop makes, the GET
\* of vehicle_data and nothing else, and the counter it leaves.
loop_turn(n, step, response) ==
    [n EXCEPT
        !.attempts = step.attempts,
        !.vehicle_data = count_call(@),
        !.first_online =
            IF @ = 0 /\ ReportsOnline(response)
            THEN count_call(n.vehicle_data) ELSE @,
        !.not_online =
            IF response.raises = "" /\ ~ReportsOnline(response)
            THEN count_call(@) ELSE @]

\* wake_vehicle, lines 55-73: one turn of the polling loop.
Poll(r) ==
    /\ pc[r] = "poll"
    /\ \E response \in VehicleDataResponses :
          LET step == poll_once(nav[r].attempts, response)
              n == loop_turn(nav[r], step, response)
          IN  IF step.next = "raise"
              THEN /\ last' = NavCall(n, step.error)
                   /\ Return(r)
              ELSE /\ last' = NoCall
                   /\ nav' = [nav EXCEPT ![r] = n]
                   /\ pc' = [pc EXCEPT ![r] =
                          IF step.next = "return" THEN "navigate" ELSE "poll"]
                   /\ UNCHANGED user_tokens
    /\ file' = navigation_store(file, user_tokens[r])
    /\ UNCHANGED <<authenticated, query_params, issued,
                   succeeded, started, revoked, pending_starts>>

\* Lines 45-53: navigate_to_address and the result.
Navigate(r) ==
    /\ pc[r] = "navigate"
    /\ \E navigation_response \in NavigationResponses :
          LET n == [nav[r] EXCEPT !.navigation_request = 1,
                                  !.navigation_response = navigation_response]
          IN  last' = NavCall(n, navigation_result(nav[r].destination,
                                                   navigation_response))
    /\ Return(r)
    /\ file' = navigation_store(file, user_tokens[r])
    /\ UNCHANGED <<authenticated, query_params, issued,
                   succeeded, started, revoked, pending_starts>>

Next ==
    \/ \E s \in Sessions : NewSession(s)
    \/ \E s \in Sessions : Callback(s)
    \/ \E s \in Sessions : Render(s)
    \/ \E s \in Sessions : StartTeslaAuth(s)
    \/ \E s \in Sessions : Disconnect(s)
    \/ \E s \in Sessions : SendToTesla(s)
    \/ ApiRequest
    \/ \E r \in Runners : Poll(r)
    \/ \E r \in Runners : Navigate(r)
    \/ \E r \in Runners : EndRun(r)

Spec == Init /\ [][Next]_vars

\* Every provider call returns (requests gives its answer or raises) and the
\* thread of a run keeps running: a run that can take its next step takes it.
Fairness ==
    \A r \in Runners :
        /\ WF_vars(Poll(r))
        /\ WF_vars(Navigate(r))
        /\ WF_vars(EndRun(r))

FairSpec == Spec /\ Fairness

\* ------------------------------------------------------- overlapping runs
\* Streamlit runs the script of each session in a thread of its own, so the
\* runs of two sessions overlap: each loads the whole map from the file when
\* it starts (lines 23-25) and a handler writes the whole map of its run back
\* (save_tokens).  The handlers take the user from st.session_state.username;
\* here every session runs them for a user of its own.

ConcUser(s) == IF s = "tab1" THEN "alice" ELSE "bob"

ConcUsers == { ConcUser(s) : s \in Sessions }

\* Lines 23-25: a run starts and loads the map.
ConcLoad(s) ==
    /\ pc[s] = "idle"
    /\ pc' = [pc EXCEPT ![s] = "loaded"]
    /\ user_tokens' = [user_tokens EXCEPT ![s] = load_tokens(s)]
    /\ last' = NoCall
    /\ UNCHANGED <<file, authenticated, query_params, nav, issued,
                   succeeded, started, revoked, pending_starts>>

\* The handler of a run has returned: the run ends.
ConcEnd(s) ==
    /\ pc' = [pc EXCEPT ![s] = "idle"]
    /\ user_tokens' = [user_tokens EXCEPT ![s] = EmptyDict]

\* main, lines 189-192, on the map the run loaded: the URL has a code.
ConcCallback(s) ==
    /\ pc[s] = "loaded"
    /\ \E state \in ReceivedStates, token_response \in TokenResponses,
          vehicles_response \in VehicleResponses, now \in Timestamps :
          LET out == handle_tesla_callback(
                         user_tokens[s], ConcUser(s), "c1", state,
                         token_response, vehicles_response, now)
          IN  /\ file' = IF out.saved THEN save_tokens(out.user_tokens) ELSE file
              /\ authenticated' =
                     [authenticated EXCEPT ![s] = IF out.ret THEN TRUE ELSE @]
              /\ IF out.ret THEN ConcEnd(s)
                 ELSE /\ pc' = [pc EXCEPT ![s] = "main"]
                      /\ user_tokens' =
                             [user_tokens EXCEPT ![s] = out.user_tokens]
              /\ last' = [op |-> "handle_tesla_callback",
                          username |-> ConcUser(s), ret |-> out.ret]
    /\ UNCHANGED <<query_params, nav, issued, succeeded, started, revoked,
                   pending_starts>>

\* The run is at line 194.
ConcAtMain(s) == pc[s] \in {"loaded", "main"}

\* main, lines 195-204 and the page below, no button pressed.
ConcRender(s) ==
    /\ ConcAtMain(s)
    /\ LET e == existing_tokens(user_tokens[s], ConcUser(s), authenticated[s])
       IN  /\ e.crashed \/ e.authenticated
           /\ authenticated' = [authenticated EXCEPT ![s] = e.authenticated]
    /\ ConcEnd(s)
    /\ last' = NoCall
    /\ UNCHANGED <<file, query_params, nav, issued, succeeded, started,
                   revoked, pending_starts>>

\* main, lines 206-209: start_tesla_auth on the map the run loaded.
ConcStartTeslaAuth(s) ==
    /\ ConcAtMain(s)
    /\ LET e == existing_tokens(user_tokens[s], ConcUser(s), authenticated[s])
       IN  ~e.crashed /\ ~e.authenticated
    /\ issued < MaxStates
    /\ file' = save_tokens(store_pending_state(user_tokens[s], ConcUser(s),
                                               token_urlsafe(issued + 1)))
    /\ issued' = issued + 1
    /\ ConcEnd(s)
    /\ last' = [op |-> "start_tesla_auth", username |-> ConcUser(s)]
    /\ UNCHANGED <<authenticated, query_params, nav, succeeded, started,
                   revoked, pending_starts>>

\* main, lines 213-220: "Disconnect Account" on the map the run loaded.
ConcDisconnect(s) ==
    /\ ConcAtMain(s)
    /\ authenticated[s]
    /\ LET d == disconnect_account(user_tokens[s], ConcUser(s))
       IN  file' = IF d.saved THEN save_tokens(d.user_tokens) ELSE file
    /\ authenticated' = [authenticated EXCEPT ![s] = FALSE]
    /\ ConcEnd(s)
    /\ last' = [op |-> "disconnect", username |-> ConcUser(s)]
    /\ UNCHANGED <<query_params, nav, issued, succeeded, started, revoked,
                   pending_starts>>

NextConc ==
    \/ \E s \in Sessions : ConcLoad(s)
    \/ \E s \in Sessions : ConcCallback(s)
    \/ \E s \in Sessions : ConcRender(s)
    \/ \E s \in Sessions : ConcStartTeslaAuth(s)
    \/ \E s \in Sessions : ConcDisconnect(s)

SpecConc == Init /\ [][NextConc]_vars

\* ----------------------------------------------------------------- claims

IsNavigation == last.op = "handle_navigation_request"

IsCallback == last.op = "handle_tesla_callback"

\* C1: a handle_navigation_request for a user for whom no
\* handle_tesla_callback ever returned True returns the not-authenticated
\* error and calls neither wake_up, vehicle_data nor navigation_request.
C1_NotAuthenticatedBeforeCallback ==
    /\ \A r \in Runners :
          pc[r] \in {"poll", "navigate"} => nav[r].username \in succeeded
    /\ (IsNavigation /\ last.username \notin succeeded) =>
          /\ last.result = NotAuthenticated
          /\ last.wake_up = 0
          /\ last.vehicle_data = 0
          /\ last.navigation_request = 0

\* C2: a handle_tesla_callback with a non-empty code and a state other than
\* the one the user's latest start_tesla_auth stored returns False, makes
\* neither the token POST nor the vehicle list call, and saves nothing.
C2_StateMismatchFails ==
    (/\ IsCallback
     /\ last.code # ""
     /\ last.state # Get(started, last.username, None)) =>
        /\ ~last.ret
        /\ last.token_post = 0
        /\ last.vehicles_get = 0
        /\ ~last.saved

\* An earlier state of the same user, replaced by a later start_tesla_auth,
\* is presented and refused.
C2_Witness ==
    /\ IsCallback
    /\ last.code = "c1"
    /\ last.state = token_urlsafe(1)
    /\ Get(started, last.username, None) = token_urlsafe(2)
    /\ ~last.ret

\* C3: one wake_vehicle call returns True at the first poll whose answer
\* reports "online" and polls no more; it never polls more than 10 times;
\* and when 10 polls were answered without "online" it raises the
\* wake-timeout error.
C3_WakeAndWait ==
    /\ \A r \in Runners :
          /\ pc[r] = "poll" =>
                /\ nav[r].first_online = 0
                /\ nav[r].vehicle_data < 10
                /\ nav[r].not_online < 10
          /\ pc[r] = "navigate" =>
                /\ nav[r].first_online # 0
                /\ nav[r].vehicle_data = nav[r].first_online
                /\ nav[r].vehicle_data <= 10
    /\ IsNavigation =>
          /\ last.vehicle_data <= 10
          /\ last.first_online # 0 =>
                /\ last.vehicle_data = last.first_online
                /\ last.navigation_request = 1
          /\ last.not_online = 10 => last.result = WakeTimeout

\* Ten polls, none answered "online": the call ends with the timeout.
C3_Witness ==
    /\ IsNavigation
    /\ last.vehicle_data = 10
    /\ last.not_online = 10
    /\ last.result = WakeTimeout

\* C4: handle_navigation_request sends navigation_request only after
\* wake_vehicle returned True on an "online" answer; when wake_vehicle
\* raises (timeout or a failing call) no navigation_request is sent.
C4_NavigateOnlyAfterWake ==
    /\ \A r \in Runners :
          pc[r] = "navigate" => nav[r].wake_up = 1 /\ nav[r].first_online # 0
    /\ IsNavigation =>
          /\ last.navigation_request = 1 =>
                last.wake_up = 1 /\ last.first_online # 0
          /\ last.first_online = 0 => last.navigation_request = 0

\* The command went out after the vehicle came online at the third poll.
C4_Witness ==
    /\ IsNavigation
    /\ last.navigation_request = 1
    /\ last.first_online = 3
    /\ last.result.kind = "success"

\* The value of the field result of the field response of a decoded answer,
\* JNull when either is missing.
ResultField(json) ==
    IF json.t = "object" /\ Has(json.v, "response")
          /\ json.v["response"].t = "object"
          /\ Has(json.v["response"].v, "result")
    THEN json.v["response"].v["result"]
    ELSE JNull

\* C5: handle_navigation_request returns the success result only when the
\* provider's answer has response.result equal to the boolean true.
C5_SuccessOnlyOnTrue ==
    (IsNavigation /\ last.result.kind = "success") =>
        /\ last.navigation_response.raises = ""
        /\ ResultField(last.navigation_response.json) = JBool(TRUE)

\* C6: for every answer to navigation_request whose response.result is
\* false or missing (no result, no response, response null, an error
\* object), handle_navigation_request returns the navigation-failed error
\* carrying the whole answer.
C6_FailureCarriesResponse ==
    (/\ IsNavigation
     /\ last.navigation_request = 1
     /\ last.navigation_response.raises = ""
     /\ ResultField(last.navigation_response.json) \in {JBool(FALSE), JNull}) =>
        last.result = NavigationFailed(last.navigation_response.json)

\* C7: after a handle_tesla_callback that returned True the stored record's
\* vehicle_id is the id of the first entry of the vehicle list; on an empty
\* list the callback fails with "No vehicles found" and stores nothing.
C7_FirstVehicle ==
    IsCallback =>
        /\ last.ret =>
              /\ Has(file.data, last.username)
              /\ Has(file.data[last.username], "vehicle_id")
              /\ Len(last.vehicles_response.json["response"]) > 0
              /\ file.data[last.username]["vehicle_id"]
                     = last.vehicles_response.json["response"][1]["id"]
        /\ (/\ last.vehicles_get = 1
            /\ last.vehicles_response.raises = ""
            /\ Has(last.vehicles_response.json, "response")
            /\ Len(last.vehicles_response.json["response"]) = 0) =>
              /\ ~last.ret
              /\ last.error = <<"Authentication failed", "No vehicles found">>
              /\ ~last.saved

\* A list of two vehicles, "v2" first: "v2" is stored.
C7_Witness ==
    /\ IsCallback
    /\ last.ret
    /\ Len(last.vehicles_response.json["response"]) = 2
    /\ last.vehicles_response.json["response"][1]["id"] = "v2"
    /\ last.vehicles_response.json["response"][2]["id"] = "v1"
    /\ file.data[last.username]["vehicle_id"] = "v2"

\* The token endpoint answered with success and both tokens.
GoodTokens(response) ==
    /\ response.raises = ""
    /\ response.status_code = 200
    /\ Has(response.json, "access_token")
    /\ Has(response.json, "refresh_token")

\* C8: handle_tesla_callback stores a record only if the token endpoint
\* answered with success and a payload holding access_token and
\* refresh_token; otherwise it returns False and the file and the session's
\* map stay exactly as they were.
C8_FailedExchangeChangesNothing ==
    /\ [](IsCallback =>
            /\ last.saved => GoodTokens(last.token_response)
            /\ (last.token_post = 1 /\ ~GoodTokens(last.token_response)) =>
                  ~last.ret /\ ~last.saved)
    /\ [][(/\ last'.op = "handle_tesla_callback"
           /\ last' # last
           /\ last'.token_post = 1
           /\ ~GoodTokens(last'.token_response)) =>
             /\ file' = file
             /\ \E s \in Sessions :
                   pc'[s] = "main" /\ user_tokens'[s] = load_tokens(s)]_vars

\* The state check passed and the token endpoint answered 200 with an
\* access_token but no refresh_token: the callback returned False.
C8_Witness ==
    /\ IsCallback
    /\ last.token_post = 1
    /\ ~GoodTokens(last.token_response)
    /\ last.token_response.raises = ""
    /\ Has(last.token_response.json, "access_token")
    /\ ~last.ret

\* C9: once handle_tesla_callback has passed the state check and issued the
\* token exchange, the pending state of the user is gone, whether the
\* exchange succeeded or failed.
C9_StateConsumedByExchange ==
    (IsCallback /\ last.token_post = 1) =>
        expected_state(file.data, last.username) = None

\* C10: when handle_tesla_callback fails on a state that differs from the
\* stored one, the pending state of the user is discarded.
C10_MismatchDiscardsPending ==
    (IsCallback /\ Len(last.error) > 0
        /\ last.error[1] = "Invalid state parameter") =>
        expected_state(file.data, last.username) = None

IsDisconnect == last.op = "disconnect"

\* C11: once a user has disconnected, and until a handle_tesla_callback
\* returns True for that user again, every handle_navigation_request for the
\* user returns the not-authenticated error and calls the provider not once.
C11_RevokedIsNotAuthenticated ==
    /\ \A r \in Runners :
          pc[r] \in {"poll", "navigate"} => nav[r].username \notin revoked
    /\ (IsNavigation /\ last.username \in revoked) =>
          /\ last.result = NotAuthenticated
          /\ last.wake_up = 0
          /\ last.vehicle_data = 0
          /\ last.navigation_request = 0

\* A user who had connected, then disconnected, asks for a navigation.
C11_Witness ==
    /\ IsNavigation
    /\ last.username \in succeeded
    /\ last.username \in revoked
    /\ last.result = NotAuthenticated

\* C12: after the disconnect of a user the file holds neither a record nor
\* a pending state of that user.
C12_DisconnectClearsUser ==
    IsDisconnect =>
        /\ ~Has(file.data, last.username)
        /\ expected_state(file.data, last.username) = None

\* The pending state the file holds for a user, None when it holds none.
PendingOf(f, u) == expected_state(f.data, u)

C14_NoExceptionEscapes ==
    IsNavigation =>
        /\ last.result.kind \in {"success", "error"}
        /\ last.result.message # ""
        /\ (last.navigation_request = 1
               /\ last.navigation_response.raises # "") =>
              last.result = Error(last.navigation_response.raises, NoRaw)
        /\ last.result = Error("ConnectionError", NoRaw) =>
              \/ last.vehicle_data = 0 /\ last.wake_up = 1
              \/ last.navigation_request = 0 /\ last.vehicle_data > 0
              \/ last.navigation_request = 1

\* The connection failed during the navigation_request POST.
C14_Witness ==
    /\ IsNavigation
    /\ last.navigation_request = 1
    /\ last.navigation_response = Raised("ConnectionError")
    /\ last.result = Error("ConnectionError", NoRaw)

\* C15: a handle_tesla_callback with a code and a state, for a user with no
\* pending state stored, returns False without a token exchange, and the
\* error it reports is not the state-mismatch error.
C15_NoPendingRequestError ==
    (/\ IsCallback
     /\ code_and_state(last.code, last.state)
     /\ last.expected = None) =>
        /\ ~last.ret
        /\ last.token_post = 0
        /\ Len(last.error) > 0
        /\ last.error[1] # "Invalid state parameter"

RecordFields == {"access_token", "refresh_token", "vehicle_id", "timestamp"}

\* C16: whatever the file stores under a key that a request can name as its
\* username is a record with access_token, refresh_token, vehicle_id and
\* timestamp; the table of pending states is not among these values.
C16_RecordsFullyPopulated ==
    \A k \in DOMAIN file.data :
        k \in ApiUsers =>
            /\ RecordFields \subseteq DOMAIN file.data[k]
            /\ k # PENDING

\* C17: when start_tesla_auth ran two or more times for a user since the
\* user's last callback, a callback carrying the state of the latest run
\* passes the state check (the token exchange is made) and a callback
\* carrying the state of an earlier run fails with the state-mismatch error
\* and no token exchange.
C17_LatestStartWins ==
    (/\ IsCallback
     /\ last.code # ""
     /\ Len(last.started_before) >= 2) =>
        LET n == Len(last.started_before)
        IN  /\ last.state = last.started_before[n] => last.token_post = 1
            /\ (\E i \in 1..(n - 1) : last.state = last.started_before[i]) =>
                  /\ ~last.ret
                  /\ last.token_post = 0
                  /\ last.error[1] = "Invalid state parameter"

\* Two runs of start_tesla_auth, then a callback with the second state: it
\* passes the check and connects the user.
C17_Witness ==
    /\ IsCallback
    /\ last.started_before = <<token_urlsafe(1), token_urlsafe(2)>>
    /\ last.state = token_urlsafe(2)
    /\ last.token_post = 1
    /\ last.ret

\* C18: every wake_vehicle call ends, and so does every
\* handle_navigation_request: a run that is polling gets out of the loop and
\* a run inside the request returns; and a call all of whose polls were
\* answered, none with "online", ends with the wake-timeout error after
\* exactly 10 polls.
C18_WakeTerminates ==
    /\ \A r \in Runners :
          /\ (pc[r] = "poll") ~> (pc[r] # "poll")
          /\ (pc[r] \in {"poll", "navigate"}) ~> (pc[r] = "done")
    /\ [](IsNavigation =>
             ((/\ last.vehicle_data > 0
               /\ last.first_online = 0
               /\ last.not_online = last.vehicle_data) =>
                  /\ last.result = WakeTimeout
                  /\ last.vehicle_data = max_attempts))

\* The vehicle came online at the 10th poll, the last one the loop allows,
\* and the request went on to the navigation command.
C18_Witness ==
    /\ IsNavigation
    /\ last.first_online = max_attempts
    /\ last.vehicle_data = max_attempts
    /\ last.navigation_request = 1

\* C19: one wake_vehicle call sends one wake_up, before its first poll: a
\* run that is polling or past the loop has sent exactly one, however many
\* polls it made and whatever they answered, and a finished request that
\* polled at all has sent exactly one.
C19_OneWakeUp ==
    /\ \A r \in Runners :
          pc[r] \in {"poll", "navigate"} => nav[r].wake_up = 1
    /\ IsNavigation =>
          /\ last.wake_up <= 1
          /\ last.vehicle_data > 0 => last.wake_up = 1

\* Five polls, four of them answered without "online": one wake_up.
C19_Witness ==
    /\ IsNavigation
    /\ last.vehicle_data = 5
    /\ last.not_online = 4
    /\ last.first_online = 5
    /\ last.wake_up = 1

\* C20: no step of a handle_navigation_request changes the file, whichever
\* way the request ends: the records and the pending states of all users
\* are after it what they were before it.
C20_NavigationLeavesStore ==
    [][(\/ \E r \in Runners : pc[r] \in {"poll", "navigate"}
        \/ \E r \in Runners : pc'[r] = "poll"
        \/ last'.op = "handle_navigation_request" /\ last' # last) =>
          file' = file]_vars

\* A request went through to success on a file that holds the user's
\* record and the table of pending states.
C20_Witness ==
    /\ IsNavigation
    /\ last.result.kind = "success"
    /\ Has(file.data, last.username)
    /\ Has(file.data, PENDING)

====
